---- MODULE Spec2Model ----
(***************************************************************************)
(* Model of python/src/indices.rs: the five entry points of the IVF-PQ     *)
(* index build pipeline (train_ivf_model, train_pq_model,                  *)
(* transform_vectors, shuffle_transformed_vectors, load_shuffled_vectors). *)
(* Every invocation i has its own position pc[i]; the object store is      *)
(* shared between invocations.                                             *)
(***************************************************************************)
EXTENDS Integers, Sequences, FiniteSets, TLC

\* ---------------------------------------------------------------- bounds
MaxP == 2
MaxRecs == 2
MaxFiles == 2
NumFrags == 2
RowsPerFrag == 2

\* ------------------------------------------------------ program constants
NumBits == 8
BatchSize == 8192

\* ------------------------------------------------------------ input sets
DistanceStrings == {"l2", "cosine", "bogus"}
Columns == {"vec", "emb"}
Dims == {2, 4}
Datasets == {"ds1", "ds2"}
Invocations == {1, 2}

\* row id of the j-th row of fragment (or file) f
RowId(f, j) == f * 16 + j

VARIABLES call, args, pc, result, log, ivf_model, pq_model, writer,
          metadata, pos, out, store, dataset

vars == <<call, args, pc, result, log, ivf_model, pq_model, writer,
          metadata, pos, out, store, dataset>>

\* ------------------------------------------------------------- helpers
Upd(f, i, v) == [f EXCEPT ![i] = v]

Put(s, p, c) == [q \in (DOMAIN s) \cup {p} |-> IF q = p THEN c ELSE s[q]]

RECURSIVE Sum(_)
Sum(s) == IF s = <<>> THEN 0 ELSE Head(s) + Sum(Tail(s))

RECURSIVE Flatten(_)
Flatten(ss) == IF ss = <<>> THEN <<>> ELSE Head(ss) \o Flatten(Tail(ss))

\* centroids of a trained IVF model with P partitions (1-D stand-ins)
Centroids(P) == [k \in 1..P |-> 10 * k]

NoPath == [dir |-> <<>>, name |-> "", part |-> -1]
NoWriter == [path |-> NoPath, cursor |-> 0, open |-> FALSE]
NoIvf == [centroids |-> <<>>, dim |-> 0, offsets |-> <<>>, lengths |-> <<>>, set |-> FALSE]
NoPq == [num_sub_vectors |-> 0, num_bits |-> 0, dimension |-> 0,
         distance_type |-> "none", set |-> FALSE]
NoMeta == [name |-> "", column |-> "", dimension |-> 0, dataset_version |-> 0,
           metric_type |-> "none", ivf |-> NoIvf, pq |-> NoPq, set |-> FALSE]

\* DistanceType::try_from(&str)
DistanceType_try_from(s) ==
    CASE s = "l2" -> [ok |-> TRUE, v |-> "L2"]
      [] s = "cosine" -> [ok |-> TRUE, v |-> "Cosine"]
      [] s = "dot" -> [ok |-> TRUE, v |-> "Dot"]
      [] s = "hamming" -> [ok |-> TRUE, v |-> "Hamming"]
      [] OTHER -> [ok |-> FALSE, v |-> "none"]

\* ProductQuantizer::new(num_sub_vectors, num_bits, dimension, codebook, distance_type)
ProductQuantizer_new(m, bits, dimension, dt) ==
    [num_sub_vectors |-> m, num_bits |-> bits, dimension |-> dimension,
     distance_type |-> dt, set |-> TRUE]

\* IvfModel { centroids: Some(ivf_centroids), offsets: vec![], lengths: vec![] }
IvfModel_new(centroids, dim) ==
    [centroids |-> centroids, dim |-> dim, offsets |-> <<>>, lengths |-> <<>>,
     set |-> TRUE]

\* one step of a handler: append to the log of external operations
Logged(i, op, ok) == log' = Upd(log, i, Append(log[i], [op |-> op, ok |-> ok]))

\* `?` on an Err: the handler returns the error to its caller
Fail(i, op) ==
    /\ pc' = Upd(pc, i, "done")
    /\ result' = Upd(result, i, [kind |-> "Err", at |-> op])

Goto(i, l) == pc' = Upd(pc, i, l) /\ UNCHANGED result

\* content of a file written by a library routine whose code is outside this
\* file: what it holds is not determined here, only which call wrote it
WrittenBy(i, n) ==
    <<[kind |-> "opaque", by |-> i, at |-> 0, n |-> n, part |-> -1, meta |-> NoMeta]>>

\* RT.block_on(py, task) returns a PyResult of its own: while invocation i of
\* entry point f is inside it (at one of the positions of `inside`, the
\* suspension points of the task) it may return Err, e.g. on an interrupt;
\* the task is abandoned where it is and the `?` after block_on returns the
\* error to the caller.
BlockOnErr(i, f, inside) ==
    /\ call[i] = f /\ pc[i] \in inside
    /\ Fail(i, "block_on")
    /\ UNCHANGED <<call, args, log, ivf_model, pq_model, writer, metadata, pos, out,
                   store, dataset>>

\* ------------------------------------------------- load_shuffled_vectors
indices_dir(ds) == <<ds, "_indices">>

\* a destination named after the column
ShuffledVectorsPathByColumn(i) ==
    [dir |-> indices_dir(args[i].dataset), name |-> args[i].column, part |-> -1]

\* dataset.ds.indices_dir().child("shuffled_vectors.idx")
ShuffledVectorsPath(i) ==
    [dir |-> indices_dir(args[i].dataset), name |-> "shuffled_vectors.idx", part |-> -1]

\* size in bytes of the serialized metadata block
MetaSize(m) == 1 + Len(m.ivf.offsets) + Len(m.ivf.lengths)

\* lines 321-328: build the IvfModel with empty offsets / lengths
load_make_ivf(i) ==
    /\ call[i] = "load_shuffled_vectors" /\ pc[i] = "start"
    /\ ivf_model' = Upd(ivf_model, i, IvfModel_new(args[i].centroids, args[i].dim))
    /\ Goto(i, "parse")
    /\ UNCHANGED <<call, args, log, pq_model, writer, metadata, pos, out, store, dataset>>

\* lines 333-340: DistanceType::try_from(distance_type).unwrap(); ProductQuantizer::new
load_parse(i) ==
    /\ call[i] = "load_shuffled_vectors" /\ pc[i] = "parse"
    /\ LET d == DistanceType_try_from(args[i].distance_type) IN
         IF d.ok
         THEN /\ pq_model' = Upd(pq_model, i,
                     ProductQuantizer_new(args[i].num_subvectors, NumBits,
                                          args[i].pq_dimension, d.v))
              /\ Goto(i, "open_store")
         ELSE /\ pc' = Upd(pc, i, "done")
              /\ result' = Upd(result, i, [kind |-> "Panic", at |-> "unwrap"])
              /\ UNCHANGED pq_model
    /\ UNCHANGED <<call, args, log, ivf_model, writer, metadata, pos, out, store, dataset>>

\* line 279: object_store_from_uri_or_path(dir_path).await?
load_open_store(i) ==
    /\ call[i] = "load_shuffled_vectors" /\ pc[i] = "open_store"
    /\ \E ok \in BOOLEAN :
         /\ Logged(i, "object_store_from_uri_or_path", ok)
         /\ IF ok THEN Goto(i, "load_streams") ELSE Fail(i, "object_store_from_uri_or_path")
    /\ UNCHANGED <<call, args, ivf_model, pq_model, writer, metadata, pos, out, store, dataset>>

\* line 280: load_partitioned_shuffles(path, filenames).await.infer_error()?
load_streams(i) ==
    /\ call[i] = "load_shuffled_vectors" /\ pc[i] = "load_streams"
    /\ \E ok \in BOOLEAN :
         /\ Logged(i, "load_partitioned_shuffles", ok)
         /\ IF ok THEN Goto(i, "create") ELSE Fail(i, "load_partitioned_shuffles")
    /\ UNCHANGED <<call, args, ivf_model, pq_model, writer, metadata, pos, out, store, dataset>>

\* lines 282-284: obj_store.create(&path).await.infer_error()?
load_create(i) ==
    /\ call[i] = "load_shuffled_vectors" /\ pc[i] = "create"
    /\ \E ok \in BOOLEAN :
         /\ Logged(i, "create", ok)
         /\ IF ok
            THEN /\ writer' = Upd(writer, i,
                        [path |-> ShuffledVectorsPath(i), cursor |-> 0, open |-> TRUE])
                 /\ store' = Put(store, ShuffledVectorsPath(i), <<>>)
                 /\ Goto(i, "merge")
            ELSE /\ Fail(i, "create")
                 /\ UNCHANGED <<writer, store>>
    /\ UNCHANGED <<call, args, ivf_model, pq_model, metadata, pos, out, dataset>>

\* line 286: write_pq_partitions(&mut writer, &mut ivf_model, Some(streams), None);
\* The returned future is neither awaited nor stored: it is dropped at the
\* end of the statement without having been polled, so its body never runs.
load_write_pq_partitions(i) ==
    /\ call[i] = "load_shuffled_vectors" /\ pc[i] = "merge"
    /\ Goto(i, "metadata")
    /\ UNCHANGED <<call, args, log, ivf_model, pq_model, writer, metadata, pos, out,
                   store, dataset>>

\* lines 288-297: IvfPQIndexMetadata::new(...)
load_metadata_new(i) ==
    /\ call[i] = "load_shuffled_vectors" /\ pc[i] = "metadata"
    /\ metadata' = Upd(metadata, i,
           [name |-> "ivf_pq_index", column |-> args[i].column,
            dimension |-> ivf_model[i].dim, dataset_version |-> args[i].version,
            metric_type |-> pq_model[i].distance_type,
            ivf |-> ivf_model[i], pq |-> pq_model[i], set |-> TRUE])
    /\ Goto(i, "encode")
    /\ UNCHANGED <<call, args, log, ivf_model, pq_model, writer, pos, out, store, dataset>>

\* line 299: Index::try_from(&metadata).infer_error()?
load_index_try_from(i) ==
    /\ call[i] = "load_shuffled_vectors" /\ pc[i] = "encode"
    /\ \E ok \in BOOLEAN :
         /\ Logged(i, "Index_try_from", ok)
         /\ IF ok THEN Goto(i, "write_protobuf") ELSE Fail(i, "Index_try_from")
    /\ UNCHANGED <<call, args, ivf_model, pq_model, writer, metadata, pos, out, store, dataset>>

\* line 300: let pos = writer.write_protobuf(&metadata).await.infer_error()?
load_write_protobuf(i) ==
    /\ call[i] = "load_shuffled_vectors" /\ pc[i] = "write_protobuf"
    /\ \E ok \in BOOLEAN :
         /\ Logged(i, "write_protobuf", ok)
         /\ IF ok
            THEN /\ pos' = Upd(pos, i, writer[i].cursor)
                 /\ store' = [store EXCEPT ![writer[i].path] =
                        Append(@, [kind |-> "metadata", by |-> i, at |-> writer[i].cursor,
                                   n |-> 0, part |-> -1, meta |-> metadata[i]])]
                 /\ writer' = Upd(writer, i,
                        [writer[i] EXCEPT !.cursor = @ + MetaSize(metadata[i])])
                 /\ Goto(i, "write_magics")
            ELSE /\ Fail(i, "write_protobuf")
                 /\ UNCHANGED <<pos, store, writer>>
    /\ UNCHANGED <<call, args, ivf_model, pq_model, metadata, out, dataset>>

\* write_magics with its error dropped instead of returned
load_write_magics_unchecked(i) ==
    /\ call[i] = "load_shuffled_vectors" /\ pc[i] = "write_magics"
    /\ \E ok \in BOOLEAN :
         /\ Logged(i, "write_magics", ok)
         /\ IF ok
            THEN /\ store' = [store EXCEPT ![writer[i].path] =
                        Append(@, [kind |-> "trailer", by |-> i, at |-> writer[i].cursor,
                                   n |-> pos[i], part |-> -1, meta |-> NoMeta])]
                 /\ writer' = Upd(writer, i, [writer[i] EXCEPT !.cursor = @ + 16])
            ELSE UNCHANGED <<store, writer>>
         /\ Goto(i, "shutdown")
    /\ UNCHANGED <<call, args, ivf_model, pq_model, metadata, pos, out, dataset>>

\* line 301: writer.write_magics(pos, 0, 1, MAGIC).await.infer_error()?
load_write_magics(i) ==
    /\ call[i] = "load_shuffled_vectors" /\ pc[i] = "write_magics"
    /\ \E ok \in BOOLEAN :
         /\ Logged(i, "write_magics", ok)
         /\ IF ok
            THEN /\ store' = [store EXCEPT ![writer[i].path] =
                        Append(@, [kind |-> "trailer", by |-> i, at |-> writer[i].cursor,
                                   n |-> pos[i], part |-> -1, meta |-> NoMeta])]
                 /\ writer' = Upd(writer, i, [writer[i] EXCEPT !.cursor = @ + 16])
                 /\ Goto(i, "shutdown")
            ELSE /\ Fail(i, "write_magics")
                 /\ UNCHANGED <<store, writer>>
    /\ UNCHANGED <<call, args, ivf_model, pq_model, metadata, pos, out, dataset>>

\* lines 302-304: writer.shutdown().await.infer_error()?; Ok(())
load_shutdown(i) ==
    /\ call[i] = "load_shuffled_vectors" /\ pc[i] = "shutdown"
    /\ \E ok \in BOOLEAN :
         /\ Logged(i, "shutdown", ok)
         /\ IF ok
            THEN /\ writer' = Upd(writer, i, [writer[i] EXCEPT !.open = FALSE])
                 /\ pc' = Upd(pc, i, "done")
                 /\ result' = Upd(result, i, [kind |-> "Ok", at |-> ""])
            ELSE /\ Fail(i, "shutdown")
                 /\ UNCHANGED writer
    /\ UNCHANGED <<call, args, ivf_model, pq_model, metadata, pos, out, store, dataset>>

\* lines 342-345: RT.block_on(None, do_load_shuffled_vectors(...))?
load_block_on_err(i) ==
    BlockOnErr(i, "load_shuffled_vectors",
               {"open_store", "load_streams", "create", "merge", "metadata", "encode",
                "write_protobuf", "write_magics", "shutdown"})

\* ---------------------------------------------------------------- inputs
\* the shuffle file of partition k (0-based) holding n records
PartitionRecords(k, n) ==
    [j \in 1..n |-> [row_id |-> RowId(k, j), partition_id |-> k]]

PartFilePath(root, k) == [dir |-> <<"tmp">>, name |-> root, part |-> k]

TheDataset == [f \in 1..NumFrags |->
                 [j \in 1..RowsPerFrag |-> [row_id |-> RowId(f, j), vector |-> 20 * j - 6 * f]]]

NoArgs == [dataset |-> "ds1", version |-> 1, column |-> "vec", distance_type |-> "l2",
           centroids |-> <<>>, dim |-> 0, pq_dimension |-> 0, num_subvectors |-> 1,
           filenames |-> <<>>, fragments |-> <<>>, root |-> "", dst |-> NoPath]

LoadArgs ==
    { [NoArgs EXCEPT !.column = c, !.distance_type = d, !.centroids = Centroids(P),
                     !.dim = dm, !.pq_dimension = pd,
                     !.filenames = [k \in 1..P |-> PartFilePath("part", k - 1)]] :
        c \in Columns, d \in DistanceStrings, P \in 1..MaxP, dm \in Dims, pd \in Dims }

LoadStores(P) ==
    { [p \in { PartFilePath("part", k - 1) : k \in 1..P } |->
          PartitionRecords(p.part, counts[p.part + 1])] :
        counts \in [1..P -> 0..MaxRecs] }

\* the invocations of I are about to start; the others are never made
InitCommon(I) ==
    /\ pc = [i \in Invocations |-> IF i \in I THEN "start" ELSE "idle"]
    /\ result = [i \in Invocations |-> [kind |-> "pending", at |-> ""]]
    /\ log = [i \in Invocations |-> <<>>]
    /\ ivf_model = [i \in Invocations |-> NoIvf]
    /\ pq_model = [i \in Invocations |-> NoPq]
    /\ writer = [i \in Invocations |-> NoWriter]
    /\ metadata = [i \in Invocations |-> NoMeta]
    /\ pos = [i \in Invocations |-> 0]
    /\ out = [i \in Invocations |-> <<>>]
    /\ dataset = TheDataset

\* a single invocation of entry point f with arguments a
OneCall(f, a) ==
    /\ call = [i \in Invocations |-> IF i = 1 THEN f ELSE "none"]
    /\ args = [i \in Invocations |-> IF i = 1 THEN a ELSE NoArgs]

InitLoad ==
    /\ \E a \in LoadArgs :
         /\ OneCall("load_shuffled_vectors", a)
         /\ store \in LoadStores(Len(a.centroids))
    /\ InitCommon({1})

LoadStep(i) ==
    \/ load_make_ivf(i)
    \/ load_parse(i)
    \/ load_open_store(i)
    \/ load_streams(i)
    \/ load_create(i)
    \/ load_write_pq_partitions(i)
    \/ load_metadata_new(i)
    \/ load_index_try_from(i)
    \/ load_write_protobuf(i)
    \/ load_write_magics(i)
    \/ load_shutdown(i)
    \/ load_block_on_err(i)

\* ------------------------------------------------------- train_ivf_model
\* lines 37-38: DistanceType::try_from(distance_type).unwrap()
train_ivf_parse(i) ==
    /\ call[i] = "train_ivf_model" /\ pc[i] = "start"
    /\ IF DistanceType_try_from(args[i].distance_type).ok
       THEN Goto(i, "build")
       ELSE /\ pc' = Upd(pc, i, "done")
            /\ result' = Upd(result, i, [kind |-> "Panic", at |-> "unwrap"])
    /\ UNCHANGED <<call, args, log, ivf_model, pq_model, writer, metadata, pos, out,
                   store, dataset>>

\* lines 39-53: build_ivf_model(...).await.infer_error()?
\* The returned IvfModel has centroids: Option<..>; <<>> stands for None.
train_ivf_build(i) ==
    /\ call[i] = "train_ivf_model" /\ pc[i] = "build"
    /\ \E ok \in BOOLEAN :
         /\ Logged(i, "build_ivf_model", ok)
         /\ IF ok
            THEN /\ \E some \in BOOLEAN :
                      ivf_model' = Upd(ivf_model, i,
                          IvfModel_new(IF some THEN args[i].centroids ELSE <<>>, args[i].dim))
                 /\ Goto(i, "unwrap")
            ELSE /\ Fail(i, "build_ivf_model")
                 /\ UNCHANGED ivf_model
    /\ UNCHANGED <<call, args, pq_model, writer, metadata, pos, out, store, dataset>>

\* lines 54-55: let centroids = ivf_model.centroids.unwrap(); Ok(centroids.into_data())
train_ivf_unwrap(i) ==
    /\ call[i] = "train_ivf_model" /\ pc[i] = "unwrap"
    /\ IF ivf_model[i].centroids # <<>>
       THEN /\ out' = Upd(out, i, ivf_model[i].centroids)
            /\ Goto(i, "to_pyarrow")
       ELSE /\ pc' = Upd(pc, i, "done")
            /\ result' = Upd(result, i, [kind |-> "Panic", at |-> "unwrap"])
            /\ UNCHANGED out
    /\ UNCHANGED <<call, args, log, ivf_model, pq_model, writer, metadata, pos, store, dataset>>

\* lines 70-83: RT.block_on(...)??; centroids.to_pyarrow(py)
train_ivf_to_pyarrow(i) ==
    /\ call[i] = "train_ivf_model" /\ pc[i] = "to_pyarrow"
    /\ \E ok \in BOOLEAN :
         /\ Logged(i, "to_pyarrow", ok)
         /\ IF ok
            THEN /\ pc' = Upd(pc, i, "done")
                 /\ result' = Upd(result, i, [kind |-> "Ok", at |-> ""])
            ELSE Fail(i, "to_pyarrow")
    /\ UNCHANGED <<call, args, ivf_model, pq_model, writer, metadata, pos, out, store, dataset>>

\* lines 70-81: the first `?` of RT.block_on(Some(py), do_train_ivf_model(...))??
train_ivf_block_on_err(i) ==
    BlockOnErr(i, "train_ivf_model", {"start", "build", "unwrap"})

\* -------------------------------------------------------- train_pq_model
\* lines 131-137: IvfModel { centroids, offsets: vec![], lengths: vec![] }
train_pq_make_ivf(i) ==
    /\ call[i] = "train_pq_model" /\ pc[i] = "start"
    /\ ivf_model' = Upd(ivf_model, i, IvfModel_new(args[i].centroids, args[i].dim))
    /\ Goto(i, "parse")
    /\ UNCHANGED <<call, args, log, pq_model, writer, metadata, pos, out, store, dataset>>

\* lines 96-97: DistanceType::try_from(distance_type).unwrap()
train_pq_parse(i) ==
    /\ call[i] = "train_pq_model" /\ pc[i] = "parse"
    /\ IF DistanceType_try_from(args[i].distance_type).ok
       THEN Goto(i, "build")
       ELSE /\ pc' = Upd(pc, i, "done")
            /\ result' = Upd(result, i, [kind |-> "Panic", at |-> "unwrap"])
    /\ UNCHANGED <<call, args, log, ivf_model, pq_model, writer, metadata, pos, out,
                   store, dataset>>

\* the codebook of a quantizer: 2^num_bits sub-centroids per subvector slot
Codebook(pq) ==
    [k \in 1..pq.num_sub_vectors |->
        [codes |-> 2 ^ pq.num_bits, sub_dimension |-> pq.dimension \div pq.num_sub_vectors]]

\* lines 98-115: build_pq_model(..., Some(&ivf_model)).await.infer_error()?;
\* Ok(pq_model.codebook.into_data())
train_pq_build(i) ==
    /\ call[i] = "train_pq_model" /\ pc[i] = "build"
    /\ \E ok \in BOOLEAN :
         /\ Logged(i, "build_pq_model", ok)
         /\ IF ok
            THEN /\ LET pq == ProductQuantizer_new(args[i].num_subvectors, NumBits,
                                  args[i].pq_dimension,
                                  DistanceType_try_from(args[i].distance_type).v)
                    IN /\ pq_model' = Upd(pq_model, i, pq)
                       /\ out' = Upd(out, i, Codebook(pq))
                 /\ Goto(i, "to_pyarrow")
            ELSE /\ Fail(i, "build_pq_model")
                 /\ UNCHANGED <<pq_model, out>>
    /\ UNCHANGED <<call, args, ivf_model, writer, metadata, pos, store, dataset>>

\* lines 138-151: RT.block_on(...)??; codebook.to_pyarrow(py)
train_pq_to_pyarrow(i) ==
    /\ call[i] = "train_pq_model" /\ pc[i] = "to_pyarrow"
    /\ \E ok \in BOOLEAN :
         /\ Logged(i, "to_pyarrow", ok)
         /\ IF ok
            THEN /\ pc' = Upd(pc, i, "done")
                 /\ result' = Upd(result, i, [kind |-> "Ok", at |-> ""])
            ELSE Fail(i, "to_pyarrow")
    /\ UNCHANGED <<call, args, ivf_model, pq_model, writer, metadata, pos, out, store, dataset>>

\* lines 138-150: the first `?` of RT.block_on(Some(py), do_train_pq_model(...))??
train_pq_block_on_err(i) ==
    BlockOnErr(i, "train_pq_model", {"parse", "build"})

\* ----------------------------------------------------- transform_vectors
\* lines 207-218: DistanceType::try_from(distance_type).unwrap(); ProductQuantizer::new
transform_parse(i) ==
    /\ call[i] = "transform_vectors" /\ pc[i] = "start"
    /\ LET d == DistanceType_try_from(args[i].distance_type) IN
         IF d.ok
         THEN /\ pq_model' = Upd(pq_model, i,
                     ProductQuantizer_new(args[i].num_subvectors, NumBits,
                                          args[i].pq_dimension, d.v))
              /\ Goto(i, "count_rows")
         ELSE /\ pc' = Upd(pc, i, "done")
              /\ result' = Upd(result, i, [kind |-> "Panic", at |-> "unwrap"])
              /\ UNCHANGED pq_model
    /\ UNCHANGED <<call, args, log, ivf_model, writer, metadata, pos, out, store, dataset>>

\* line 163: dataset.ds.count_rows(None).await.infer_error()?
transform_count_rows(i) ==
    /\ call[i] = "transform_vectors" /\ pc[i] = "count_rows"
    /\ \E ok \in BOOLEAN :
         /\ Logged(i, "count_rows", ok)
         /\ IF ok
            THEN /\ pos' = Upd(pos, i, Len(Flatten(dataset)))
                 /\ Goto(i, "scan")
            ELSE /\ Fail(i, "count_rows")
                 /\ UNCHANGED pos
    /\ UNCHANGED <<call, args, ivf_model, pq_model, writer, metadata, out, store, dataset>>

\* lines 164-175: scan().with_fragments(fragments).project(&[column])
\* .with_row_id().batch_size(8192).try_into_stream(): the request handed to
\* the scanner; the stream it yields is the scanner's business
transform_scan(i) ==
    /\ call[i] = "transform_vectors" /\ pc[i] = "scan"
    /\ \E ok \in BOOLEAN :
         /\ Logged(i, "scan", ok)
         /\ IF ok
            THEN /\ out' = Upd(out, i,
                        <<[fragments |-> args[i].fragments, column |-> args[i].column,
                           with_row_id |-> TRUE, batch_size |-> BatchSize]>>)
                 /\ Goto(i, "open_store")
            ELSE /\ Fail(i, "scan")
                 /\ UNCHANGED out
    /\ UNCHANGED <<call, args, ivf_model, pq_model, writer, metadata, pos, store, dataset>>

\* line 177: object_store_from_uri_or_path(dst_uri).await?
transform_open_store(i) ==
    /\ call[i] = "transform_vectors" /\ pc[i] = "open_store"
    /\ \E ok \in BOOLEAN :
         /\ Logged(i, "object_store_from_uri_or_path", ok)
         /\ IF ok THEN Goto(i, "create") ELSE Fail(i, "object_store_from_uri_or_path")
    /\ UNCHANGED <<call, args, ivf_model, pq_model, writer, metadata, pos, out, store, dataset>>

\* line 178: obj_store.create(&path).await.infer_error()?
transform_create(i) ==
    /\ call[i] = "transform_vectors" /\ pc[i] = "create"
    /\ \E ok \in BOOLEAN :
         /\ Logged(i, "create", ok)
         /\ IF ok
            THEN /\ writer' = Upd(writer, i,
                        [path |-> args[i].dst, cursor |-> 0, open |-> TRUE])
                 /\ store' = Put(store, args[i].dst, <<>>)
                 /\ Goto(i, "write")
            ELSE /\ Fail(i, "create")
                 /\ UNCHANGED <<writer, store>>
    /\ UNCHANGED <<call, args, ivf_model, pq_model, metadata, pos, out, dataset>>

\* lines 179-190: write_vector_storage(transform_input, num_rows, ivf_centroids,
\* pq_model, distance_type, column, writer).await.infer_error()?; Ok(())
\* The writer is moved into the call; what it writes is decided there.
transform_write(i) ==
    /\ call[i] = "transform_vectors" /\ pc[i] = "write"
    /\ \E ok \in BOOLEAN :
         /\ Logged(i, "write_vector_storage", ok)
         /\ IF ok
            THEN /\ store' = [store EXCEPT ![writer[i].path] = WrittenBy(i, pos[i])]
                 /\ writer' = Upd(writer, i, [writer[i] EXCEPT !.open = FALSE])
                 /\ pc' = Upd(pc, i, "done")
                 /\ result' = Upd(result, i, [kind |-> "Ok", at |-> ""])
            ELSE /\ Fail(i, "write_vector_storage")
                 /\ UNCHANGED <<store, writer>>
    /\ UNCHANGED <<call, args, ivf_model, pq_model, metadata, pos, out, dataset>>

\* lines 219-230: RT.block_on(Some(py), do_transform_vectors(...))?
transform_block_on_err(i) ==
    BlockOnErr(i, "transform_vectors",
               {"count_rows", "scan", "open_store", "create", "write"})

\* ------------------------------------------- shuffle_transformed_vectors
UnsortedPath(name) == [dir |-> <<"tmp">>, name |-> name, part |-> -1]

\* lines 254-260 and 239-242: shuffle_vectors(unsorted_filenames, dir_path,
\* ivf_centroids, shuffle_output_root_filename).await.infer_error()?
\* shuffle_vectors is a library routine: the list of files it returns (here
\* some number n of partition files) and what it writes into them are decided
\* there; this function hands the list on unchanged.
shuffle_call(i) ==
    /\ call[i] = "shuffle_transformed_vectors" /\ pc[i] = "start"
    /\ \E ok \in BOOLEAN :
         /\ Logged(i, "shuffle_vectors", ok)
         /\ IF ok
            THEN /\ \E n \in 0..Len(args[i].centroids) :
                      LET files == { PartFilePath(args[i].root, k - 1) : k \in 1..n }
                      IN /\ store' = [q \in (DOMAIN store) \cup files |->
                                        IF q \in files THEN WrittenBy(i, 0) ELSE store[q]]
                         /\ out' = Upd(out, i,
                                [k \in 1..n |-> PartFilePath(args[i].root, k - 1)])
                 /\ Goto(i, "match")
            ELSE /\ Goto(i, "match_err")
                 /\ UNCHANGED <<store, out>>
    /\ UNCHANGED <<call, args, ivf_model, pq_model, writer, metadata, pos, dataset>>

\* lines 257-260: RT.block_on(None, do_shuffle_transformed_vectors(...))?
shuffle_block_on_err(i) ==
    BlockOnErr(i, "shuffle_transformed_vectors", {"start"})

\* lines 262-268: match result { Ok(partition_files) => Ok(py_list),
\*                                 Err(e) => Err(PyRuntimeError::new_err(..)) }
shuffle_return(i) ==
    /\ call[i] = "shuffle_transformed_vectors" /\ pc[i] \in {"match", "match_err"}
    /\ pc' = Upd(pc, i, "done")
    /\ result' = Upd(result, i,
           IF pc[i] = "match" THEN [kind |-> "Ok", at |-> ""]
           ELSE [kind |-> "Err", at |-> "shuffle_vectors"])
    /\ UNCHANGED <<call, args, log, ivf_model, pq_model, writer, metadata, pos, out,
                   store, dataset>>

\* ---------------------------------------------------------------- inputs
TrainArgs ==
    { [NoArgs EXCEPT !.column = c, !.distance_type = d, !.centroids = Centroids(P),
                     !.dim = dm, !.pq_dimension = dm] :
        c \in Columns, d \in DistanceStrings, P \in 1..MaxP, dm \in Dims }

\* a Vec<FileFragment>: any list of fragments, repetitions included
FragmentLists == UNION { [1..n -> 1..NumFrags] : n \in 0..NumFrags }

TransformArgs ==
    { [NoArgs EXCEPT !.distance_type = d, !.centroids = Centroids(P),
                     !.dim = dm, !.pq_dimension = pd, !.fragments = fr,
                     !.dst = UnsortedPath("u1")] :
        d \in DistanceStrings, P \in 1..MaxP, dm \in Dims, pd \in Dims,
        fr \in FragmentLists }

UnsortedNames == {"u1", "u2"}

\* an unsorted transform output: records in any order; the partition id P is
\* one that the IvfModel given to the shuffle does not have
UnsortedFiles(name, P) ==
    { [j \in DOMAIN parts |->
          [row_id |-> RowId(IF name = "u1" THEN 1 ELSE 2, j),
           partition_id |-> parts[j]]] :
        parts \in UNION { [1..n -> 0..P] : n \in 0..MaxRecs } }

ShuffleArgs ==
    { [NoArgs EXCEPT !.centroids = Centroids(P), !.filenames = fs, !.root = "part"] :
        P \in 1..MaxP, fs \in UNION { [1..n -> UnsortedNames] : n \in 1..MaxFiles } }

InitTrainIvf ==
    /\ \E a \in TrainArgs : OneCall("train_ivf_model", a)
    /\ store = << >>
    /\ InitCommon({1})

InitTrainPq ==
    /\ \E a \in TrainArgs : OneCall("train_pq_model", a)
    /\ store = << >>
    /\ InitCommon({1})

InitTransform ==
    /\ \E a \in TransformArgs : OneCall("transform_vectors", a)
    /\ store = << >>
    /\ InitCommon({1})

InitShuffle ==
    /\ \E a \in ShuffleArgs :
         /\ OneCall("shuffle_transformed_vectors", a)
         /\ \E f1 \in UnsortedFiles("u1", Len(a.centroids)),
               f2 \in UnsortedFiles("u2", Len(a.centroids)) :
              store = [p \in { UnsortedPath(n) : n \in UnsortedNames } |->
                          IF p.name = "u1" THEN f1 ELSE f2]
    /\ InitCommon({1})

Init == InitTrainIvf \/ InitTrainPq \/ InitTransform \/ InitShuffle \/ InitLoad

Next ==
    \E i \in Invocations :
        \/ train_ivf_parse(i)
        \/ train_ivf_build(i)
        \/ train_ivf_unwrap(i)
        \/ train_ivf_to_pyarrow(i)
        \/ train_ivf_block_on_err(i)
        \/ train_pq_make_ivf(i)
        \/ train_pq_parse(i)
        \/ train_pq_build(i)
        \/ train_pq_to_pyarrow(i)
        \/ train_pq_block_on_err(i)
        \/ transform_parse(i)
        \/ transform_count_rows(i)
        \/ transform_scan(i)
        \/ transform_open_store(i)
        \/ transform_create(i)
        \/ transform_write(i)
        \/ transform_block_on_err(i)
        \/ shuffle_call(i)
        \/ shuffle_block_on_err(i)
        \/ shuffle_return(i)
        \/ LoadStep(i)

Spec == Init /\ [][Next]_vars

\* two invocations of load_shuffled_vectors on a shared object store
ConcArgs ==
    { [NoArgs EXCEPT !.dataset = ds, !.column = c, !.centroids = Centroids(1),
                     !.dim = 2, !.pq_dimension = 2,
                     !.filenames = <<PartFilePath("part", 0)>>] :
        ds \in Datasets, c \in Columns }

InitConc ==
    /\ call = [i \in Invocations |-> "load_shuffled_vectors"]
    /\ args \in [Invocations -> ConcArgs]
    /\ store \in LoadStores(1)
    /\ InitCommon(Invocations)

NextConc == \E i \in Invocations : LoadStep(i)

SpecConc == InitConc /\ [][NextConc]_vars

\* ================================================================ claims
IsLoad(i) == call[i] = "load_shuffled_vectors"

\* the destination artifact of a load_shuffled_vectors invocation
Artifact(i) ==
    IF ShuffledVectorsPath(i) \in DOMAIN store THEN store[ShuffledVectorsPath(i)] ELSE <<>>

Blocks(file, kind) == SelectSeq(file, LAMBDA b : b.kind = kind)

\* number of records in the supplied shuffle file of partition k (0-based)
StreamLen(i, k) == Len(store[args[i].filenames[k + 1]])

TotalRecords(i) == Sum([k \in 1..Len(args[i].filenames) |-> StreamLen(i, k - 1)])

NumPartitions(i) == Len(args[i].centroids)

\* number of records of partition k whose codes are in the file
CodesWritten(file, k) ==
    Sum([j \in 1..Len(file) |->
           IF file[j].kind = "codes" /\ file[j].part = k THEN file[j].n ELSE 0])

\* C1: after load_shuffled_vectors returns successfully, the IvfModel in the
\* artifact's metadata has sum(lengths) = total number of supplied records and
\* offsets[k] + lengths[k] = offsets[k+1] for adjacent partitions.
C1_LengthsComplete ==
    \A i \in Invocations :
        (IsLoad(i) /\ result[i].kind = "Ok") =>
            /\ Len(Blocks(Artifact(i), "metadata")) = 1
            /\ LET ivf == Blocks(Artifact(i), "metadata")[1].meta.ivf IN
                 /\ Sum(ivf.lengths) = TotalRecords(i)
                 /\ \A k \in 1..(NumPartitions(i) - 1) :
                        /\ k + 1 <= Len(ivf.offsets) /\ k <= Len(ivf.lengths)
                        /\ ivf.offsets[k] + ivf.lengths[k] = ivf.offsets[k + 1]

\* C2: in every state (failed and aborted runs included) the trailer is in
\* the destination artifact only if the codes of every partition and the
\* metadata block have been written before it.
C2_TrailerOnlyAfterAllBlocks ==
    \A i \in Invocations :
        IsLoad(i) =>
            \A t \in 1..Len(Artifact(i)) :
                Artifact(i)[t].kind = "trailer" =>
                    /\ \E m \in 1..(t - 1) : Artifact(i)[m].kind = "metadata"
                    /\ \A k \in 0..(NumPartitions(i) - 1) :
                           CodesWritten(SubSeq(Artifact(i), 1, t - 1), k) = StreamLen(i, k)

\* C3: the artifact is laid out as [partition 0 codes]...[partition P-1 codes]
\* [metadata][trailer]: code blocks in increasing partition id, each recorded
\* offset the position of its block, the metadata after the last partition,
\* and the trailer's offset the position of the metadata block.
C3_FixedLayout ==
    \A i \in Invocations :
        (IsLoad(i) /\ result[i].kind = "Ok") =>
            LET file == Artifact(i)
                codes == Blocks(file, "codes")
                n == Len(file)
            IN /\ n >= 2
               /\ file[n].kind = "trailer" /\ file[n - 1].kind = "metadata"
               /\ file[n].n = file[n - 1].at
               /\ codes = SubSeq(file, 1, n - 2)
               /\ \A a, b \in 1..Len(codes) : a < b => codes[a].part < codes[b].part
               /\ \A k \in 0..(NumPartitions(i) - 1) :
                      /\ CodesWritten(file, k) = StreamLen(i, k)
                      /\ \A a \in 1..Len(codes) :
                             codes[a].part = k =>
                                 /\ k + 1 <= Len(file[n - 1].meta.ivf.offsets)
                                 /\ file[n - 1].meta.ivf.offsets[k + 1] = codes[a].at

\* C4: a failed step of load_shuffled_vectors is the last step the invocation
\* runs, and the invocation returns that step's error; a successful return
\* means no step failed.
C4_FirstErrorIsFatal ==
    \A i \in Invocations :
        IsLoad(i) =>
            /\ \A k \in 1..Len(log[i]) :
                   ~log[i][k].ok =>
                       /\ k = Len(log[i])
                       /\ pc[i] = "done"
                       /\ result[i] = [kind |-> "Err", at |-> log[i][k].op]
            /\ result[i].kind = "Ok" => \A k \in 1..Len(log[i]) : log[i][k].ok

C4_Witness ==
    \E i \in Invocations :
        /\ IsLoad(i)
        /\ result[i] = [kind |-> "Err", at |-> "write_protobuf"]
        /\ ShuffledVectorsPath(i) \in DOMAIN store
        /\ Blocks(Artifact(i), "trailer") = <<>>
        /\ Len(log[i]) = 5

\* C6: at every entry point that takes distance_type, an unrecognized value
\* makes the call (when block_on itself does not fail) return a ConfigError,
\* without a panic and without any training, read or write.
C6_UnrecognizedIsConfigError ==
    \A i \in Invocations :
        (/\ call[i] \in {"train_ivf_model", "train_pq_model", "transform_vectors",
                         "load_shuffled_vectors"}
         /\ ~DistanceType_try_from(args[i].distance_type).ok
         /\ pc[i] = "done"
         /\ result[i].at # "block_on") =>
            /\ result[i] = [kind |-> "Err", at |-> "ConfigError"]
            /\ log[i] = <<>>

AfterMerge == {"metadata", "encode", "write_protobuf", "write_magics", "shutdown"}

\* C7: offsets / lengths of an IvfModel are empty in every state before the
\* merge of load_shuffled_vectors, and have one entry per centroid in every
\* state after it, the serialized metadata included.
C7_OffsetsLifecycle ==
    \A i \in Invocations :
        /\ (ivf_model[i].set /\ ~(IsLoad(i) /\ pc[i] \in AfterMerge \cup {"done"})) =>
               ivf_model[i].offsets = <<>> /\ ivf_model[i].lengths = <<>>
        /\ (IsLoad(i) /\ pc[i] \in AfterMerge) =>
               /\ Len(ivf_model[i].offsets) = NumPartitions(i)
               /\ Len(ivf_model[i].lengths) = NumPartitions(i)
        /\ metadata[i].set =>
               /\ Len(metadata[i].ivf.offsets) = NumPartitions(i)
               /\ Len(metadata[i].ivf.lengths) = NumPartitions(i)

\* C8: no artifact is sealed, and load_shuffled_vectors does not succeed,
\* when the IvfModel and the ProductQuantizer differ in dimension or metric.
C8_NoInconsistentSealedArtifact ==
    \A i \in Invocations :
        IsLoad(i) =>
            /\ result[i].kind = "Ok" => args[i].dim = args[i].pq_dimension
            /\ \A t \in 1..Len(Artifact(i)) :
                   Artifact(i)[t].kind = "trailer" =>
                       \A m \in 1..Len(Artifact(i)) :
                           Artifact(i)[m].kind = "metadata" =>
                               /\ Artifact(i)[m].meta.dimension = Artifact(i)[m].meta.pq.dimension
                               /\ Artifact(i)[m].meta.metric_type
                                      = Artifact(i)[m].meta.pq.distance_type

\* C10: the destination of load_shuffled_vectors is the dataset's index
\* directory plus a fixed file name; invocations on the same dataset write
\* the same destination whatever their column.
C10_DestinationFromDatasetOnly ==
    \A i, j \in Invocations :
        (IsLoad(i) /\ writer[i].open) =>
            /\ writer[i].path.dir = indices_dir(args[i].dataset)
            /\ (IsLoad(j) /\ writer[j].open /\ args[i].dataset = args[j].dataset) =>
                   writer[i].path = writer[j].path

\* both invocations returned Ok on the same dataset for different columns, and
\* the artifact left behind mixes blocks of the two
C10_Witness ==
    \E i, j \in Invocations :
        /\ i # j
        /\ IsLoad(i) /\ IsLoad(j)
        /\ result[i].kind = "Ok" /\ result[j].kind = "Ok"
        /\ args[i].dataset = args[j].dataset
        /\ args[i].column # args[j].column
        /\ \E a, b \in DOMAIN Artifact(i) : Artifact(i)[a].by = i /\ Artifact(i)[b].by = j

====
